---- MODULE Spec2Model ----
(***************************************************************************)
(* Model of the code-generation workflows of the builder repository:       *)
(*   - orchestrateProjectGeneration (src/inngest/orchestrator.ts): fan-out  *)
(*     of three code-agent/run events, the wait for three                   *)
(*     code-agent/finished events and the sandbox.setup trigger;            *)
(*   - codeAgentFunction (src/inngest/functions.ts): one generation run.    *)
(*     The file holds two definitions of codeAgentFunction (lines 20-260    *)
(*     and lines 280-522); impl says which one handles code-agent/run.      *)
(*     network.run is modelled as a whole (RunNetwork) and iteration by     *)
(*     iteration (NetworkDispatch, NetworkReturns) with the tools' replies;  *)
(*   - updateRollingSummary (packages/core/summary/rollingSummary.ts);      *)
(*   - the conversation store (src/lib/conversation.ts);                    *)
(*   - setupSandbox (src/inngest/setup-sandbox.ts): the merge of the        *)
(*     fragments, the sandbox, the bootstrap and the sandbox.ready event.   *)
(* Each step.run / step.sendEvent / await of a handler is one action.       *)
(***************************************************************************)
EXTENDS Integers, Sequences, FiniteSets, TLC

VARIABLES
    impl,       \* 1: codeAgentFunction of functions.ts:20-260, 2: of functions.ts:280-522
    orch,       \* orchestrateProjectGeneration runs, one per project.generate event
    sent,       \* per function run: the events it sent with step.sendEvent, in order
    runQueue,   \* code-agent/run events delivered and not yet picked up
    run,        \* codeAgentFunction runs
    project,    \* table Project: projectId -> <<>> (no row) or <<row>>
    messages,   \* table Message (with its nested Fragment), in creation order
    turns,      \* table ConversationTurn, in creation order
    dbUpdates,  \* prisma.project.update calls issued, in order
    gitPushes,  \* pushFiles calls issued to the Git host adapter, in order
    exceptions, \* exceptions raised inside best-effort steps, and who handled them
    setup,      \* the setupSandbox run triggered by a sandbox.setup event
    callerManifest, \* rollingSummary: the manifest object its caller holds (<<>>: null)
    call,       \* rollingSummary: the last call of updateRollingSummary (<<>>: none)
    context,    \* conversation: what the last getConversationContext returned
    net,        \* per run: the agent network while network.run executes step by step
    sandboxes   \* per sandbox id: the files of the sandbox, path -> content

libVars == <<callerManifest, call, context>>

loopVars == <<net, sandboxes>>

vars == <<impl, orch, sent, runQueue, run, project, messages, turns, dbUpdates, gitPushes,
          exceptions, setup, callerManifest, call, context, net, sandboxes>>

-----------------------------------------------------------------------------
(* Value domains *)

Projects == {"p1", "p2"}
Values == {"build a todo app"}
StepTypes == {"frontend", "backend", "database"}
GenIds == {"g1", "g2"}
RunIds == {"r1", "r2"}
\* the run of setupSandbox, as the sender of its events
SetupRun == "setup-sandbox"

\* how often the substrate may execute the body of one step.run of a run
MaxAttempts == 2

RepoUrl == "https://github.com/test/repo"
NoRepo == "null"

-----------------------------------------------------------------------------
(* orchestrateProjectGeneration *)

RunEvent(data) == [name |-> "code-agent/run", data |-> data]

\* step.sendEvent("fan-out", [...]): the three events of orchestrator.ts:16-29
FanOutEventsDropOne(projectId, value) ==
    << RunEvent([projectId |-> projectId, value |-> value, stepType |-> "frontend"]),
       RunEvent([projectId |-> projectId, value |-> value, stepType |-> "backend"]) >>

FanOutEvents(projectId, value) ==
    << RunEvent([projectId |-> projectId, value |-> value, stepType |-> "frontend"]),
       RunEvent([projectId |-> projectId, value |-> value, stepType |-> "backend"]),
       RunEvent([projectId |-> projectId, value |-> value, stepType |-> "database"]) >>

\* step.sendEvent("setup-sandbox", ...): the event of orchestrator.ts:41-44
SetupEvent(projectId, value) ==
    [name |-> "sandbox.setup", data |-> [projectId |-> projectId]]

\* the `if` expressions of orchestrator.ts:34-36
FinishedMatches(g, projectId, stepType) ==
    /\ orch[g].pc = "wait-all"
    /\ projectId = orch[g].projectId
    /\ stepType \in StepTypes

IdleOrch == [pc |-> "idle", projectId |-> "p1", value |-> "build a todo app",
             got |-> {}, timedOut |-> FALSE]

SeqToSet(s) == {s[i] : i \in 1..Len(s)}

\* a project.generate event triggers a run of the function (orchestrator.ts:11-13)
Generate(g, projectId, value) ==
    /\ orch[g].pc = "idle"
    /\ orch' = [orch EXCEPT ![g] = [@ EXCEPT !.pc = "fan-out",
                                            !.projectId = projectId,
                                            !.value = value]]
    /\ UNCHANGED <<loopVars, gitPushes, exceptions, setup, libVars, impl, sent, runQueue, run, project, messages, turns, dbUpdates>>

\* step "fan-out" (orchestrator.ts:16-29)
FanOut(g) ==
    /\ orch[g].pc = "fan-out"
    /\ LET evs == FanOutEvents(orch[g].projectId, orch[g].value) IN
         /\ sent' = [sent EXCEPT ![g] = @ \o evs]
         /\ runQueue' = runQueue \cup {e.data : e \in SeqToSet(evs)}
    /\ orch' = [orch EXCEPT ![g].pc = "wait-all"]
    /\ UNCHANGED <<loopVars, gitPushes, exceptions, setup, libVars, impl, run, project, messages, turns, dbUpdates>>

\* a code-agent/finished event arrives on the event bus; every waiting
\* orchestrator run whose `if` matches records it (orchestrator.ts:32-38)
FinishedArrives(projectId, stepType) ==
    /\ \E g \in GenIds : FinishedMatches(g, projectId, stepType)
    /\ orch' = [g \in GenIds |->
                  IF FinishedMatches(g, projectId, stepType)
                  THEN [orch[g] EXCEPT !.got = @ \cup {stepType}]
                  ELSE orch[g]]
    /\ UNCHANGED <<loopVars, gitPushes, exceptions, setup, libVars, impl, sent, runQueue, run, project, messages, turns, dbUpdates>>

\* step "wait-all" resolves with the three events (orchestrator.ts:32-38)
WaitAllComplete(g) ==
    /\ orch[g].pc = "wait-all"
    /\ orch[g].got = StepTypes
    /\ orch' = [orch EXCEPT ![g].pc = "setup-sandbox"]
    /\ UNCHANGED <<loopVars, gitPushes, exceptions, setup, libVars, impl, sent, runQueue, run, project, messages, turns, dbUpdates>>

\* the 30m timeouts expire with an event missing: the wait resolves without
\* it (null in its place) and the handler goes on; the result of the wait is
\* not inspected (orchestrator.ts:32-41)
WaitAllTimeout(g) ==
    /\ orch[g].pc = "wait-all"
    /\ orch[g].got # StepTypes
    /\ orch' = [orch EXCEPT ![g] = [@ EXCEPT !.pc = "setup-sandbox", !.timedOut = TRUE]]
    /\ UNCHANGED <<loopVars, gitPushes, exceptions, setup, libVars, impl, sent, runQueue, run, project, messages, turns, dbUpdates>>

\* step "setup-sandbox" and return (orchestrator.ts:41-46)
TriggerSetup(g) ==
    /\ orch[g].pc = "setup-sandbox"
    /\ sent' = [sent EXCEPT ![g] = Append(@, SetupEvent(orch[g].projectId, orch[g].value))]
    /\ orch' = [orch EXCEPT ![g].pc = "done"]
    /\ UNCHANGED <<loopVars, gitPushes, exceptions, setup, libVars, impl, runQueue, run, project, messages, turns, dbUpdates>>

-----------------------------------------------------------------------------
(* The agent network of codeAgentFunction (functions.ts:57-185, 337-465) *)

Paths == {"app/page.tsx"}
Contents == {"c1", "c2"}
MarkerText == "<task_summary>done</task_summary>"
Texts == {MarkerText, "working on it"}
NoText == ""          \* lastAssistantTextMessageContent found no text
NoSummary == ""       \* state.data.summary never assigned (falsy like "")
maxIter == 15
MaxBatch == 2

\* lastAssistantMessageText.includes("<task_summary>") (functions.ts:164, 444)
HasMarker(text) == text = MarkerText

NoFiles == <<>>       \* state.data.files never assigned
EmptyMap == [p \in {} |-> "c1"]

\* network.state.data of a fresh network: AgentState with nothing assigned
EmptyState == [summary |-> NoSummary, files |-> NoFiles]

FileWrites == [path : Paths, content : Contents]
Batches == UNION {[1..n -> FileWrites] : n \in 0..MaxBatch}

\* updatedFiles[file.path] = file.content (functions.ts:109, 389)
PutFile(map, w) ==
    [p \in (DOMAIN map) \cup {w.path} |-> IF p = w.path THEN w.content ELSE map[p]]

RECURSIVE ApplyWrites(_, _)
ApplyWrites(map, batch) ==
    IF batch = <<>> THEN map
    ELSE ApplyWrites(PutFile(map, Head(batch)), Tail(batch))

\* handler of createOrUpdateFiles (functions.ts:98-121, 378-401); failAt = k > 0:
\* the k-th sandbox.files.write throws, failAt = 0: none does
CreateOrUpdateFiles(state, batch, failAt) ==
    LET updatedFiles == IF state.files = NoFiles THEN EmptyMap ELSE state.files[1]
        done == IF failAt = 0 THEN Len(batch) ELSE failAt - 1
        written == ApplyWrites(updatedFiles, SubSeq(batch, 1, done))
    IN  IF failAt = 0
        THEN [state EXCEPT !.files = <<written>>]
        ELSE IF state.files = NoFiles
             THEN state                              \* the error string is not an object
             ELSE [state EXCEPT !.files = <<written>>] \* updatedFiles is state.data.files itself

ToolCalls ==
    {[name |-> "none"], [name |-> "terminal"], [name |-> "readFiles"]}
    \cup {[name |-> "createOrUpdateFiles", files |-> b, failAt |-> k] :
            b \in Batches, k \in 0..MaxBatch}

ValidToolCall(t) == t.name = "createOrUpdateFiles" => t.failAt <= Len(t.files)

\* what one inference of the model returns: text and at most one tool call
Responses == {r \in [text : Texts \cup {NoText}, tool : ToolCalls] : ValidToolCall(r.tool)}

InvokeTool(state, t) ==
    IF t.name = "createOrUpdateFiles"
    THEN CreateOrUpdateFiles(state, t.files, t.failAt)
    ELSE state      \* terminal and readFiles return strings, state.data untouched

\* lifecycle.onResponse (functions.ts:159-169, 439-449)
OnResponse(state, text) ==
    IF text # NoText /\ HasMarker(text)
    THEN [state EXCEPT !.summary = text]
    ELSE state

\* router (functions.ts:177-182, 457-462): TRUE when it returns codeAgent
RouterAlways(state) == TRUE

Router(state) == state.summary = NoSummary

\* one iteration of the network: one inference of codeAgent with its tool call
AgentTurn(state, resp) == InvokeTool(OnResponse(state, resp.text), resp.tool)

\* network.run (functions.ts:173-185, 453-465): iterate while the router
\* returns the agent, at most maxIter times; the set of possible final states
RECURSIVE RunNetwork(_, _)
RunNetwork(states, left) ==
    LET running == {s \in states : Router(s)}
        stopped == states \ running
    IN  IF left = 0 \/ running = {}
        THEN states
        ELSE stopped \cup RunNetwork({AgentTurn(s, resp) : s \in running, resp \in Responses},
                                     left - 1)

NetworkResults == RunNetwork({EmptyState}, maxIter)

-----------------------------------------------------------------------------
(* updateRollingSummary (packages/core/summary/rollingSummary.ts).  A string
   is the sequence of its characters (each one UTF-16 unit here), so that
   prefixes, suffixes, slices and byte lengths are computed. *)

Lit_app == <<"a", "p", "p", "/">>
Lit_page == <<"p", "a", "g", "e">>
Lit_route == <<"r", "o", "u", "t", "e">>
Lit_prisma == <<".", "p", "r", "i", "s", "m", "a">>
Lit_env == <<".", "e", "n", "v">>
Lit_marker == <<".", ".", ".">>

\* the characters of the paths and file contents the calls are made with
Chars ==
    [s \in {"app/page.tsx", "schema.prisma", "logo.png", "<div />", "café"} |->
        CASE s = "app/page.tsx"  -> Lit_app \o Lit_page \o <<".", "t", "s", "x">>
          [] s = "schema.prisma" -> <<"s", "c", "h", "e", "m", "a">> \o Lit_prisma
          [] s = "logo.png"      -> <<"l", "o", "g", "o", ".", "p", "n", "g">>
          [] s = "<div />"       -> <<"<", "d", "i", "v", " ", "/", ">">>
          [] s = "café"          -> <<"c", "a", "f", "é">>]

SummaryPaths == {"app/page.tsx", "schema.prisma", "logo.png"}
SummaryContents == {"<div />", "café"}

\* Buffer.byteLength(s, 'utf8'): "é" (U+00E9) takes two bytes, ASCII one
Utf8Bytes(c) == IF c = "é" THEN 2 ELSE 1

RECURSIVE ByteLength(_)
ByteLength(s) == IF s = <<>> THEN 0 ELSE Utf8Bytes(Head(s)) + ByteLength(Tail(s))

StartsWith(s, pre) == Len(s) >= Len(pre) /\ SubSeq(s, 1, Len(pre)) = pre
EndsWith(s, suf) == Len(s) >= Len(suf) /\ SubSeq(s, Len(s) - Len(suf) + 1, Len(s)) = suf
Includes(s, sub) == \E i \in 1..(Len(s) + 1) : StartsWith(SubSeq(s, i, Len(s)), sub)

\* String.prototype.slice(0, end)
Slice(s, end) ==
    LET e == IF end < 0
             THEN (IF Len(s) + end < 0 THEN 0 ELSE Len(s) + end)
             ELSE (IF end > Len(s) THEN Len(s) ELSE end)
    IN  SubSeq(s, 1, e)

\* sha1(content): the hex digest, a function of the content alone
sha1(content) == <<"sha1", content>>

\* p.match(/\.(png|jpe?g|gif|svg)$/), p.match(/\.(md|txt)$/)
inferKind(path) ==
    LET p == Chars[path] IN
    IF \E ext \in {<<"p", "n", "g">>, <<"j", "p", "g">>, <<"j", "p", "e", "g">>,
                   <<"g", "i", "f">>, <<"s", "v", "g">>} : EndsWith(p, <<".">> \o ext)
    THEN "asset"
    ELSE IF \E ext \in {<<"m", "d">>, <<"t", "x", "t">>} : EndsWith(p, <<".">> \o ext)
         THEN "doc"
         ELSE "code"

\* the entry of lines 142-147
FileMetaOf(path, content) ==
    [path |-> path, hash |-> sha1(content),
     size |-> ByteLength(Chars[content]), kind |-> inferKind(path)]

\* p.startsWith('app/') && p.match(/(page|route)\.[jt]sx?$/)
IsRoute(path) ==
    LET p == Chars[path] IN
    /\ StartsWith(p, Lit_app)
    /\ \E name \in {Lit_page, Lit_route}, e \in {"j", "t"}, x \in {<<>>, <<"x">>} :
          EndsWith(p, name \o <<".", e, "s">> \o x)

\* p.endsWith('.prisma')
IsModel(path) == EndsWith(Chars[path], Lit_prisma)

\* a JavaScript object with string keys: the keys in insertion order
EmptyObject == [keys |-> <<>>, get |-> [p \in {} |-> <<>>]]

\* obj[key] = value
SetPropAppendKey(obj, key, value) ==
    [keys |-> Append(obj.keys, key),
     get |-> [k \in (DOMAIN obj.get) \cup {key} |-> IF k = key THEN value ELSE obj.get[k]]]

SetProp(obj, key, value) ==
    [keys |-> IF key \in DOMAIN obj.get THEN obj.keys ELSE Append(obj.keys, key),
     get |-> [k \in (DOMAIN obj.get) \cup {key} |-> IF k = key THEN value ELSE obj.get[k]]]

\* Object.keys(files).filter(isRoute) and .filter(isModel) (lines 151-152)
RouteKeys(files) == SelectSeq(files.keys, IsRoute)

ModelKeys(files) == SelectSeq(files.keys, IsModel)

\* guessEnvVars (lines 172-178)
guessEnvVars(files) ==
    IF \E k \in DOMAIN files.get : Includes(Chars[k], Lit_env)
    THEN <<"DATABASE_URL">> ELSE <<>>

\* a value passed as changedFiles: an array, or an object that is not one
JsArray(items) == [type |-> "array", items |-> items]
JsRecord(map) == [type |-> "object", props |-> map]

\* the manifest `prev ?? {files: {}, routes: [], models: [], env: [], lastUpdated}`
\* (lines 133-139); files = <<>> is an object without a files property
FreshManifest(now) ==
    [files |-> <<EmptyObject>>, routes |-> <<>>, models |-> <<>>, env |-> <<>>,
     lastUpdated |-> now]

\* changedFiles.forEach(...) (lines 141-148) on manifest.files
RECURSIVE ForEachChangedFirstWins(_, _)
ForEachChangedFirstWins(files, items) ==
    IF items = <<>> THEN files
    ELSE SetProp(ForEachChangedFirstWins(files, Tail(items)), Head(items).path,
                 FileMetaOf(Head(items).path, Head(items).content))

RECURSIVE ForEachChanged(_, _)
ForEachChanged(files, items) ==
    IF items = <<>> THEN files
    ELSE CHOOSE result \in
             {ForEachChanged(SetProp(files, item.path, meta), rest) :
                 item \in {Head(items)},
                 meta \in {FileMetaOf(Head(items).path, Head(items).content)},
                 rest \in {Tail(items)}} : TRUE

\* lines 150-153
RecomputeLastUpdatedOnly(manifest, now) == [manifest EXCEPT !.lastUpdated = now]

Recompute(manifest, now) ==
    [manifest EXCEPT !.lastUpdated = now,
                     !.routes = RouteKeys(manifest.files[1]),
                     !.models = ModelKeys(manifest.files[1]),
                     !.env = guessEnvVars(manifest.files[1])]

RECURSIVE Decimal(_)
Decimal(n) ==
    LET digit == <<"0", "1", "2", "3", "4", "5", "6", "7", "8", "9">>[(n % 10) + 1]
    IN  IF n < 10 THEN <<digit>> ELSE Append(Decimal(n \div 10), digit)

\* list.join(', ') || '-' over the characters of the entries
RECURSIVE JoinOrDash(_)
JoinOrDash(list) ==
    IF list = <<>> THEN <<"-">>
    ELSE IF Len(list) = 1 THEN Chars[list[1]]
         ELSE Chars[list[1]] \o <<",", " ">> \o JoinOrDash(Tail(list))

\* defaultSummarise (lines 118-126)
defaultSummarise(manifest) ==
    <<"#", " ", "P", "r", "o", "j", "e", "c", "t", " ", "D", "i", "g", "e", "s", "t", "\n">>
    \o <<"F", "i", "l", "e", "s", ":", " ">> \o Decimal(Len(manifest.files[1].keys)) \o <<"\n">>
    \o <<"R", "o", "u", "t", "e", "s", ":", " ">> \o JoinOrDash(manifest.routes) \o <<"\n">>
    \o <<"M", "o", "d", "e", "l", "s", ":", " ">> \o JoinOrDash(manifest.models) \o <<"\n">>
    \o <<"E", "n", "v", ":", " ">>
    \o (IF manifest.env = <<>> THEN <<"-">>
        ELSE <<"D", "A", "T", "A", "B", "A", "S", "E", "_", "U", "R", "L">>)

DefaultMaxDigestBytes == 3000

\* options of a call: a field is <<>> when absent.  summariseFn is given by
\* what it returns for this call: [ok |-> TRUE, text |-> ...] or a rejection
NoOpts == [maxDigestBytes |-> <<>>, summariseFn |-> <<>>]

Rejected(error, prevAfter) ==
    [status |-> "rejected", error |-> error, value |-> <<>>, prev |-> prevAfter]

\* updateRollingSummary (lines 128-164).  prev: <<>> (null) or <<object>>.
\* The result is the settled promise, with in prev what the object passed as
\* prev holds after the call: `manifest` is that very object when prev is
\* not null, and lines 141-153 assign into it.
updateRollingSummary(prev, changedFiles, opts, now) ==
    IF changedFiles.type # "array"
    THEN Rejected("TypeError: changedFiles.forEach is not a function", prev)
    ELSE IF prev # <<>> /\ prev[1].files = <<>>
    THEN IF changedFiles.items # <<>>
         THEN Rejected("TypeError: Cannot set properties of undefined", prev)
         ELSE Rejected("TypeError: Cannot convert undefined or null to object",
                       <<[prev[1] EXCEPT !.lastUpdated = now]>>)
    ELSE CHOOSE settled \in
        {LET prevAfter == IF prev = <<>> THEN <<>> ELSE <<manifest>>
             summarised == IF opts.summariseFn = <<>>
                           THEN [ok |-> TRUE, text |-> defaultSummarise(manifest)]
                           ELSE opts.summariseFn[1]
             maxBytes == IF opts.maxDigestBytes = <<>> THEN DefaultMaxDigestBytes
                         ELSE opts.maxDigestBytes[1]
         IN  IF ~summarised.ok
             THEN Rejected("summariseFn rejected", prevAfter)
             ELSE [status |-> "fulfilled", error |-> "",
                   value |-> <<[manifest |-> manifest,
                                digest |-> IF ByteLength(summarised.text) > maxBytes
                                           THEN Slice(summarised.text, maxBytes - 3)
                                                \o Lit_marker
                                           ELSE summarised.text]>>,
                   prev |-> prevAfter] :
            manifest \in
                {Recompute(written, now) :
                    written \in
                        {[manifest0 EXCEPT !.files = <<ForEachChanged(@[1], changedFiles.items)>>] :
                            manifest0 \in {IF prev = <<>> THEN FreshManifest(now)
                                           ELSE prev[1]}}}} : TRUE

MaxChanged == 2
MaxDigestLen == 3
MaxCap == 4

\* the entries of changedFiles a caller passes
SummaryWrites ==
    {w \in [path : SummaryPaths, content : SummaryContents] :
        w.content = "café" => w.path = "app/page.tsx"}
ChangedBatches == UNION {[1..n -> SummaryWrites] : n \in 0..MaxChanged}

\* what an injected summariseFn resolves to, or that it rejects
DigestAlphabet == {"é", "."}
DigestTexts == UNION {[1..n -> DigestAlphabet] : n \in 0..MaxDigestLen}
SummariserFails == [ok |-> FALSE, text |-> <<>>]
SummariserOutcomes == {[ok |-> TRUE, text |-> t] : t \in DigestTexts} \cup {SummariserFails}

\* a caller that keeps the manifest between calls: it passes the manifest it
\* holds as prev and keeps the returned manifest; when the call rejects it
\* still holds the object it passed
Summarise(changedFiles, opts, now) ==
    /\ \E result \in {updateRollingSummary(callerManifest, JsArray(changedFiles), opts, now)} :
           /\ call' = <<[prev |-> callerManifest, changedFiles |-> changedFiles,
                         opts |-> opts, result |-> result,
                         repeated |-> /\ call # <<>>
                                      /\ call[1].result.status = "fulfilled"
                                      /\ call[1].changedFiles = changedFiles]>>
           /\ callerManifest' = IF result.status = "fulfilled"
                                THEN <<result.value[1].manifest>>
                                ELSE result.prev
    /\ UNCHANGED <<loopVars, gitPushes, exceptions, setup, context, impl, orch, sent, runQueue, run,
                   project, messages, turns, dbUpdates>>

-----------------------------------------------------------------------------
(* codeAgentFunction: one run per code-agent/run event *)

\* event data sent by the iterate route (api route: projectId, value, isFollowUp)
IterateEvents == [projectId : Projects, value : Values, isFollowUp : BOOLEAN]
\* event data sent by the fan-out of the orchestrator
FanOutData == [projectId : Projects, value : Values, stepType : StepTypes]

\* the run events delivered when the runs are checked on their own
RunRequests ==
    {[projectId |-> "p1", value |-> "build a todo app", stepType |-> "backend"],
     [projectId |-> "p2", value |-> "build a todo app", stepType |-> "frontend"],
     [projectId |-> "p1", value |-> "build a todo app", isFollowUp |-> TRUE],
     [projectId |-> "p1", value |-> "build a todo app", isFollowUp |-> FALSE]}

Has(data, field) == field \in DOMAIN data

\* event.data?.stepType ?? "frontend" (functions.ts:34-35)
StepTypeOf(data) == IF Has(data, "stepType") THEN data.stepType ELSE "frontend"

\* event.data.isFollowUp === true (functions.ts:302)
IsFollowUp(data) == Has(data, "isFollowUp") /\ data.isFollowUp = TRUE

\* getPromptForStep: the template of the step type with the digest on top
GetPrompt(stepType, digest) ==
    [template |-> IF stepType \in {"frontend", "backend", "database"}
                  THEN stepType ELSE "frontend",
     digest |-> digest]

\* buildIterativePrompt(history, basePrompt, newUserRequest) of the
\* conversation module that exports getConversationHistory and
\* saveConversationTurn (registry.ts:319-365): the base prompt on top, then the
\* turns and files of the context, then the new request
buildIterativePrompt(history, basePrompt, newUserRequest) ==
    [template |-> "iterative", basePrompt |-> basePrompt, history |-> history,
     request |-> newUserRequest]

\* the system prompt of the second definition (functions.ts:305-314)
PreparedPrompt(data, digest, history) ==
    IF IsFollowUp(data)
    THEN buildIterativePrompt(history, digest, data.value)
    ELSE [template |-> "PROMPT"]

\* take: 10 (conversation.ts:23)
ContextTake == 10

ProjectTurnIds(projectId) == {i \in 1..Len(turns) : turns[i].projectId = projectId}

\* orderBy: { createdAt: 'desc' }: row i is returned before row j.  Rows with
\* equal createdAt come in an order the database chooses: newest insert first
\* (tie = TRUE) or oldest insert first
ComesBefore(i, j, tie) ==
    \/ turns[i].createdAt > turns[j].createdAt
    \/ /\ turns[i].createdAt = turns[j].createdAt
       /\ IF tie THEN i > j ELSE i < j

\* prisma.conversationTurn.findMany (conversation.ts:20-29); id is the row's
\* position in the table, kept to tell rows apart
FindManyTurns(projectId, tie) ==
    LET ids == ProjectTurnIds(projectId)
        rank(i) == Cardinality({j \in ids : ComesBefore(j, i, tie)}) + 1
        n == IF Cardinality(ids) > ContextTake THEN ContextTake ELSE Cardinality(ids)
    IN  [k \in 1..n |->
            LET i == CHOOSE i \in ids : rank(i) = k
            IN  [id |-> i, role |-> turns[i].role, content |-> turns[i].content,
                 createdAt |-> turns[i].createdAt]]

\* Array.prototype.reverse (conversation.ts:45)
KeepOrder(list) == list

Reverse(list) == [k \in 1..Len(list) |-> list[Len(list) + 1 - k]]

\* getConversationContext (conversation.ts:18-49)
getConversationContext(projectId, tie) ==
    LET found == FindManyTurns(projectId, tie)
        assistant == {k \in 1..Len(found) : found[k].role = "ASSISTANT"}
        fragments == {k \in 1..Len(messages) :
                        messages[k].projectId = projectId /\ messages[k].fragment # <<>>}
        latest == CHOOSE k \in fragments : \A j \in fragments : j <= k
        first == CHOOSE k \in assistant : \A j \in assistant : k <= j
    IN  [projectId |-> projectId,
         turns |-> Reverse(found),
         currentFiles |-> IF fragments = {} \/ messages[latest].fragment[1].files = NoFiles
                          THEN EmptyMap
                          ELSE messages[latest].fragment[1].files[1],
         lastSummary |-> IF assistant = {} THEN <<>> ELSE <<found[first].content>>]

\* Object.keys(result.state.data.files || {}).length (functions.ts:189, 469)
FileCount(files) == IF files = NoFiles THEN 0 ELSE Cardinality(DOMAIN files[1])

\* isError (functions.ts:187-189, 467-469)
IsErrorBoth(state) == state.summary = NoSummary /\ FileCount(state.files) = 0

IsError(state) == state.summary = NoSummary \/ FileCount(state.files) = 0

\* `https://${sandbox.getHost(3000)}` (functions.ts:191-195, 471-475)
SandboxUrl(sandboxId) == <<"https://", sandboxId, "3000">>

ErrorContent == "Something went wrong. Please try again."

\* data of prisma.message.create in step save-result (functions.ts:226-253, 488-515)
ResultMessage(r, projectId, state, isError, sandboxUrl) ==
    IF isError
    THEN [by |-> r, projectId |-> projectId, content |-> ErrorContent,
          role |-> "ASSISTANT", type |-> "ERROR", fragment |-> <<>>]
    ELSE [by |-> r, projectId |-> projectId, content |-> state.summary,
          role |-> "ASSISTANT", type |-> "RESULT",
          fragment |-> <<[sandboxUrl |-> sandboxUrl, title |-> "Fragment",
                          files |-> state.files]>>]

\* createdAt @default(now()) of the next ConversationTurn row: later than the
\* last row's, or (tick = FALSE) the same millisecond
CreatedAt(tick) ==
    LET last == IF turns = <<>> THEN 0 ELSE turns[Len(turns)].createdAt
    IN  IF tick THEN last + 1 ELSE last

\* row created by saveConversationTurn -> addConversationTurn
Turn(r, projectId, role, content, createdAt) ==
    [by |-> r, projectId |-> projectId, role |-> role, content |-> content,
     createdAt |-> createdAt]

\* the guard of step update-rolling-summary (functions.ts:198)
ShouldUpdateSummaryAlways(isError, state) == TRUE

ShouldUpdateSummary(isError, state) == ~isError /\ state.files # NoFiles

\* the guard inside step save-assistant-turn (functions.ts:479)
ShouldSaveAssistantTurn(isError, state) == ~isError /\ state.summary # NoSummary

\* `project?.manifest ? project.manifest : {}` (functions.ts:202): {} has no
\* files property
EmptyManifestObject ==
    [files |-> <<>>, routes |-> <<>>, models |-> <<>>, env |-> <<>>, lastUpdated |-> ""]

ExistingManifest(row) ==
    IF row = <<>> \/ row[1].manifest = <<>> THEN <<EmptyManifestObject>> ELSE row[1].manifest

\* result.state.data.files as the second argument (functions.ts:207): the
\* path -> content object of the agent state, not an array
ChangedFilesArgument(files) ==
    IF files = NoFiles THEN [type |-> "undefined"] ELSE JsRecord(files[1])

\* the promise returned by the call of functions.ts:205-208, as it settles
SummaryPromise(existingManifest, files) ==
    updateRollingSummary(existingManifest, ChangedFilesArgument(files), NoOpts, "t1")

\* `const { manifest, digest } = updateRollingSummary(...)` (functions.ts:205-208):
\* updateRollingSummary is async, the call is not awaited, and the two names
\* are read off the returned promise, which has neither property: both are
\* undefined (<<>>) whatever the promise settles to
SummaryUpdateData(existingManifest, files) == [manifest |-> <<>>, digest |-> <<>>]

\* prisma.project.update: a column whose value is undefined is left alone
ApplyUpdate(row, data) ==
    [row EXCEPT !.manifest = IF data.manifest = <<>> THEN @ ELSE data.manifest,
                !.digest = IF data.digest = <<>> THEN @ ELSE data.digest[1]]

\* an exception raised while a step ran: caught by the step's catch block and
\* logged with console.error, or a promise rejection no handler was attached to
Exception(r, step, error, handledBy) ==
    [by |-> r, step |-> step, error |-> error, handledBy |-> handledBy]

ProjectExists(projectId) == project[projectId] # <<>>

IdleRun == [pc |-> "idle", data |-> <<>>, sandboxId |-> "", project |-> <<>>,
            digest |-> "", systemPrompt |-> <<>>, state |-> EmptyState,
            isError |-> FALSE, sandboxUrl |-> <<>>, attempt |-> 1, error |-> ""]

data(r) == run[r].data

\* a code-agent/run event sent by the fan-out triggers a run of the function
\* (functions.ts:20-23, 280-283)
StartRun(r, d) ==
    /\ run[r].pc = "idle"
    /\ r = "r2" => run["r1"].pc # "idle"
    /\ d \in runQueue
    /\ runQueue' = runQueue \ {d}
    /\ run' = [run EXCEPT ![r] = [IdleRun EXCEPT !.pc = "get-sandbox-id", !.data = d]]
    /\ UNCHANGED <<loopVars, gitPushes, exceptions, setup, libVars, impl, orch, sent, project, messages, turns, dbUpdates>>

\* a code-agent/run event sent from outside the workflows (the iterate route's
\* inngest.send) triggers a run of the function (functions.ts:20-23, 280-283)
RunTriggered(r, d) ==
    /\ run[r].pc = "idle"
    /\ r = "r2" => run["r1"].pc # "idle"
    /\ run' = [run EXCEPT ![r] = [IdleRun EXCEPT !.pc = "get-sandbox-id", !.data = d]]
    /\ UNCHANGED <<loopVars, gitPushes, exceptions, setup, libVars, impl, orch, sent, runQueue, project, messages, turns, dbUpdates>>

Fail(r, error) == run' = [run EXCEPT ![r] = [@ EXCEPT !.pc = "failed", !.error = error]]

\* the body of a step has run: the substrate records its result and the
\* handler goes on (again = FALSE), or the result is lost and the body is
\* executed once more (again = TRUE)
AfterStep(rec, next, again) ==
    IF again
    THEN [rec EXCEPT !.attempt = @ + 1]
    ELSE [rec EXCEPT !.pc = next, !.attempt = 1]

CanRepeat(r, again) == again => run[r].attempt < MaxAttempts

\* table Message after Sandbox.create has thrown in step get-sandbox-id: the
\* step has no catch and nothing runs after it (functions.ts:24-27, 284-287)
MessagesAfterSandboxFailureWithError(r) ==
    Append(messages, ResultMessage(r, data(r).projectId, EmptyState, TRUE, <<>>))

MessagesAfterSandboxFailure(r) == messages

\* step get-sandbox-id (functions.ts:24-27, 284-287); ok = FALSE: Sandbox.create throws
GetSandboxId(r, ok) ==
    /\ run[r].pc = "get-sandbox-id"
    /\ IF ok
       THEN /\ run' = [run EXCEPT ![r] = [@ EXCEPT !.pc = "load-project", !.sandboxId = r]]
            /\ UNCHANGED messages
       ELSE /\ Fail(r, "get-sandbox-id")
            /\ messages' = MessagesAfterSandboxFailure(r)
    /\ UNCHANGED <<loopVars, gitPushes, exceptions, setup, libVars, impl, orch, sent, runQueue, project, turns, dbUpdates>>

\* prisma.project.findUnique and what follows it up to the next step
\* (functions.ts:34-49 and 290-302)
LoadProject(r) ==
    /\ run[r].pc = "load-project"
    /\ LET row == project[data(r).projectId]
           digest == IF row = <<>> THEN "" ELSE row[1].digest
       IN  IF impl = 1
           THEN run' = [run EXCEPT ![r] =
                          [@ EXCEPT !.pc = "network.run", !.project = row, !.digest = digest,
                                    !.systemPrompt = GetPrompt(StepTypeOf(data(r)), digest)]]
           ELSE IF row = <<>>
                THEN Fail(r, "Project not found")
                ELSE run' = [run EXCEPT ![r] =
                               [@ EXCEPT !.pc = "prepare-prompt", !.project = row,
                                         !.digest = digest]]
    /\ UNCHANGED <<loopVars, gitPushes, exceptions, setup, libVars, impl, orch, sent, runQueue, project, messages, turns, dbUpdates>>

\* step prepare-prompt (functions.ts:305-314)
PreparePrompt(r) ==
    /\ run[r].pc = "prepare-prompt"
    /\ \E tie \in BOOLEAN :
          run' = [run EXCEPT ![r] =
                    [@ EXCEPT !.pc = "save-user-turn",
                              !.systemPrompt =
                                  PreparedPrompt(data(r), run[r].digest,
                                      getConversationContext(data(r).projectId, tie))]]
    /\ UNCHANGED <<loopVars, gitPushes, exceptions, setup, libVars, impl, orch, sent, runQueue, project, messages, turns, dbUpdates>>

\* step save-user-turn (functions.ts:317-323)
SaveUserTurn(r, again) ==
    /\ run[r].pc = "save-user-turn"
    /\ CanRepeat(r, again)
    /\ turns' = Append(turns, Turn(r, data(r).projectId, "USER", data(r).value, CreatedAt(TRUE)))
    /\ run' = [run EXCEPT ![r] = AfterStep(@, "network.run", again)]
    /\ UNCHANGED <<loopVars, gitPushes, exceptions, setup, libVars, impl, orch, sent, runQueue, project, messages, dbUpdates>>

\* network.run and the classification (functions.ts:185-189, 465-469)
NetworkRun(r, result) ==
    /\ run[r].pc = "network.run"
    /\ run' = [run EXCEPT ![r] =
                 [@ EXCEPT !.pc = "get-sandbox-url", !.state = result,
                           !.isError = IsError(result)]]
    /\ UNCHANGED <<loopVars, gitPushes, exceptions, setup, libVars, impl, orch, sent, runQueue, project, messages, turns, dbUpdates>>

\* the step that follows get-sandbox-url in each definition
AfterSandboxUrl(r) ==
    IF impl = 2 THEN "save-assistant-turn"
    ELSE IF ShouldUpdateSummary(run[r].isError, run[r].state)
         THEN "update-rolling-summary" ELSE "save-result"

\* step get-sandbox-url (functions.ts:191-195, 471-475); ok = FALSE: getSandbox throws
GetSandboxUrl(r, ok) ==
    /\ run[r].pc = "get-sandbox-url"
    /\ IF ok
       THEN run' = [run EXCEPT ![r] =
                      [@ EXCEPT !.pc = AfterSandboxUrl(r),
                                !.sandboxUrl = SandboxUrl(run[r].sandboxId)]]
       ELSE Fail(r, "get-sandbox-url")
    /\ UNCHANGED <<loopVars, gitPushes, exceptions, setup, libVars, impl, orch, sent, runQueue, project, messages, turns, dbUpdates>>

\* step update-rolling-summary (functions.ts:199-223); ok = FALSE: the call of
\* prisma.project.update throws (as it does when the row is missing); the
\* throw happens inside the try and is logged by the catch
UpdateRollingSummary(r, again, ok) ==
    /\ run[r].pc = "update-rolling-summary"
    /\ CanRepeat(r, again)
    /\ LET p == data(r).projectId
           step == "update-rolling-summary"
           existingManifest == ExistingManifest(run[r].project)
           promise == SummaryPromise(existingManifest, run[r].state.files)
           upd == SummaryUpdateData(existingManifest, run[r].state.files)
           updated == ok /\ ProjectExists(p)
       IN  /\ dbUpdates' = Append(dbUpdates, [by |-> r, projectId |-> p, data |-> upd])
           /\ project' = IF updated
                         THEN [project EXCEPT ![p] = <<ApplyUpdate(@[1], upd)>>]
                         ELSE project
           /\ exceptions' =
                 exceptions
                 \o (IF promise.status = "rejected"
                     THEN <<Exception(r, step, promise.error, "nobody")>> ELSE <<>>)
                 \o (IF updated THEN <<>>
                     ELSE <<Exception(r, step, "prisma.project.update failed", "catch")>>)
    /\ run' = [run EXCEPT ![r] = AfterStep(@, "save-result", again)]
    /\ UNCHANGED <<loopVars, gitPushes, setup, libVars, impl, orch, sent, runQueue, messages, turns>>

\* step save-assistant-turn (functions.ts:478-486)
SaveAssistantTurn(r, again) ==
    /\ run[r].pc = "save-assistant-turn"
    /\ CanRepeat(r, again)
    /\ turns' = IF ShouldSaveAssistantTurn(run[r].isError, run[r].state)
                THEN Append(turns, Turn(r, data(r).projectId, "ASSISTANT", run[r].state.summary,
                                   CreatedAt(TRUE)))
                ELSE turns
    /\ run' = [run EXCEPT ![r] = AfterStep(@, "save-result", again)]
    /\ UNCHANGED <<loopVars, gitPushes, exceptions, setup, libVars, impl, orch, sent, runQueue, project, messages, dbUpdates>>

\* step save-result and the return (functions.ts:226-259, 488-521); the create
\* of a message of a project without a row violates the relation and throws
SaveResult(r, again) ==
    /\ run[r].pc = "save-result"
    /\ CanRepeat(r, again)
    /\ IF ProjectExists(data(r).projectId)
       THEN /\ messages' = Append(messages,
                   ResultMessage(r, data(r).projectId, run[r].state, run[r].isError,
                                 run[r].sandboxUrl))
            /\ run' = [run EXCEPT ![r] = AfterStep(@, "done", again)]
       ELSE /\ ~again
            /\ Fail(r, "save-result")
            /\ UNCHANGED messages
    /\ UNCHANGED <<loopVars, gitPushes, exceptions, setup, libVars, impl, orch, sent, runQueue, project, turns, dbUpdates>>

-----------------------------------------------------------------------------
(* network.run step by step: one action per iteration of the network, with
   the sandbox the tools act on and what each tool handler returns to the model *)

\* a network created by createNetwork (functions.ts:173-183, 453-463) and not
\* run yet; last: the response of the last inference and what its tool met
IdleNet == [iter |-> 0, state |-> EmptyState, last |-> <<>>, reply |-> <<>>]

\* getSandbox(sandboxId) (functions.ts:68, 105, 138): the sandbox it connects to
getSandboxOfFirstRun(sandboxId) == "r1"

getSandbox(sandboxId) == sandboxId

\* the loop condition of network.run: fewer than maxIter iterations made and
\* the router returns the agent
CanDispatchNoCeiling(n) == Router(n.state)

CanDispatch(n) == n.iter < maxIter /\ Router(n.state)

StdoutOfCommand == "out"
StderrOfCommand == "err"

\* a value a tool handler returns to the model
JsString(pieces) == [type |-> "string", pieces |-> pieces]
JsUndefined == [type |-> "undefined"]

\* handler of terminal (functions.ts:64-85); ok = FALSE: getSandbox or
\* sandbox.commands.run throws after the two streams received their data
Terminal(ok) ==
    IF ok THEN JsString(<<StdoutOfCommand>>)
    ELSE JsString(<<"Command failed: ", "error", " \n stdout ", StdoutOfCommand,
                    "\nstderror:", StderrOfCommand>>)

\* handler of readFiles (functions.ts:134-155); ok = FALSE: getSandbox or a
\* sandbox.files.read throws
ReadFiles(ok) ==
    IF ok THEN JsString(<<"JSON.stringify(contents)">>)
    ELSE JsString(<<"Error reading files: ", "error">>)

\* what the handler of createOrUpdateFiles returns: it has no return
\* statement; the string `Error creating or updating files:` + e is the result
\* of its step only (functions.ts:98-121)
CreateOrUpdateFilesReply(state, batch, failAt) == JsUndefined

\* what the handler of tool call t returns to the model
ToolReply(state, t, ok) ==
    CASE t.name = "terminal" -> <<Terminal(ok)>>
      [] t.name = "readFiles" -> <<ReadFiles(ok)>>
      [] t.name = "createOrUpdateFiles" -> <<CreateOrUpdateFilesReply(state, t.files, t.failAt)>>
      [] OTHER -> <<>>

\* the files of the sandbox after the sandbox.files.write calls that returned
\* (functions.ts:106-110, 386-390)
SandboxAfter(files, t) ==
    IF t.name = "createOrUpdateFiles"
    THEN ApplyWrites(files, SubSeq(t.files, 1,
                                   IF t.failAt = 0 THEN Len(t.files) ELSE t.failAt - 1))
    ELSE files

ToolFails(t, ok) ==
    IF t.name = "createOrUpdateFiles" THEN t.failAt > 0
    ELSE t.name \in {"terminal", "readFiles"} /\ ~ok

\* one iteration of network.run: the router returns codeAgent, the model
\* answers with resp, onResponse runs, then the handler of the tool call
NetworkDispatch(r, resp, ok) ==
    /\ run[r].pc = "network.run"
    /\ CanDispatch(net[r])
    /\ ok \/ resp.tool.name \in {"terminal", "readFiles"}
    /\ LET heard == OnResponse(net[r].state, resp.text) IN
         /\ net' = [net EXCEPT ![r] =
                       [iter |-> net[r].iter + 1,
                        state |-> InvokeTool(heard, resp.tool),
                        last |-> <<[text |-> resp.text, tool |-> resp.tool,
                                    failed |-> ToolFails(resp.tool, ok), before |-> heard]>>,
                        reply |-> ToolReply(heard, resp.tool, ok)]]
         /\ sandboxes' = [sandboxes EXCEPT ![getSandbox(run[r].sandboxId)] =
                                               SandboxAfter(@, resp.tool)]
    /\ UNCHANGED <<gitPushes, exceptions, setup, libVars, impl, orch, sent, runQueue, run,
                   project, messages, turns, dbUpdates>>

\* network.run returns and the run is classified (functions.ts:185-189, 465-469)
NetworkReturns(r) ==
    /\ run[r].pc = "network.run"
    /\ ~CanDispatch(net[r])
    /\ run' = [run EXCEPT ![r] =
                 [@ EXCEPT !.pc = "get-sandbox-url", !.state = net[r].state,
                           !.isError = IsError(net[r].state)]]
    /\ UNCHANGED <<loopVars, gitPushes, exceptions, setup, libVars, impl, orch, sent, runQueue,
                   project, messages, turns, dbUpdates>>

-----------------------------------------------------------------------------
(* setupSandbox (src/inngest/setup-sandbox.ts): one run per sandbox.setup event *)

\* take: 3 (setup-sandbox.ts:32)
FragmentsTake == 3

\* prisma.fragment.findMany({where: {projectId}, orderBy: {createdAt: "desc"},
\* take: 3}) (setup-sandbox.ts:29-33): the positions in table Message of the
\* project's messages that have a fragment, newest first
FindManyFragments(projectId) ==
    LET ids == {k \in 1..Len(messages) :
                   messages[k].projectId = projectId /\ messages[k].fragment # <<>>}
        newer(k) == Cardinality({j \in ids : j > k})
        n == IF Cardinality(ids) > FragmentsTake THEN FragmentsTake ELSE Cardinality(ids)
    IN  [i \in 1..n |-> CHOOSE k \in ids : newer(k) = i - 1]

\* Object.assign(target, source)
ObjectAssign(target, source) ==
    [p \in (DOMAIN target) \cup (DOMAIN source) |->
        IF p \in DOMAIN source THEN source[p] ELSE target[p]]

\* the loop of setup-sandbox.ts:40-45 over the fragments found
RECURSIVE MergeFragments(_, _)
MergeFragments(allFiles, found) ==
    IF found = <<>> THEN allFiles
    ELSE LET files == messages[Head(found)].fragment[1].files
         IN  MergeFragments(IF files = NoFiles THEN allFiles
                            ELSE ObjectAssign(allFiles, files[1]),
                            Tail(found))

FailSetupGoesOn(error) == setup' = [setup EXCEPT !.pc = "create-sandbox"]

FailSetup(error) == setup' = [setup EXCEPT !.pc = "failed", !.error = error]

\* a sandbox.setup event triggers the function, which loads the project
\* (setup-sandbox.ts:11-26)
SetupSandboxStarts(projectId) ==
    /\ setup.pc = "idle"
    /\ IF ProjectExists(projectId)
       THEN setup' = [setup EXCEPT !.pc = "find-fragments", !.projectId = projectId]
       ELSE setup' = [setup EXCEPT !.pc = "failed", !.projectId = projectId,
                                   !.error = "Project not found"]
    /\ UNCHANGED <<loopVars, gitPushes, exceptions, libVars, impl, orch, sent, runQueue, run, project,
                   messages, turns, dbUpdates>>

\* the fragments are loaded and merged (setup-sandbox.ts:28-49)
SetupMergeFragments ==
    /\ setup.pc = "find-fragments"
    /\ LET found == FindManyFragments(setup.projectId)
           allFiles == MergeFragments(EmptyMap, found)
       IN  IF found = <<>>
           THEN FailSetup("No generated files found for sandbox setup.")
           ELSE IF DOMAIN allFiles = {}
                THEN FailSetup("No files found in fragments.")
                ELSE setup' = [setup EXCEPT !.pc = "create-sandbox",
                                            !.fragments = found, !.allFiles = allFiles]
    /\ UNCHANGED <<loopVars, gitPushes, exceptions, libVars, impl, orch, sent, runQueue, run, project,
                   messages, turns, dbUpdates>>

\* the sandbox handle step create-sandbox returns (setup-sandbox.ts:52-54)
SetupSandboxId == "sandbox-of-setup"

\* step create-sandbox (setup-sandbox.ts:52-54); ok = FALSE: getSandbox throws
SetupCreateSandbox(ok) ==
    /\ setup.pc = "create-sandbox"
    /\ IF ok
       THEN setup' = [setup EXCEPT !.pc = "write-files", !.sandbox = <<SetupSandboxId>>]
       ELSE FailSetup("create-sandbox")
    /\ UNCHANGED <<loopVars, gitPushes, exceptions, libVars, impl, orch, sent, runQueue, run, project,
                   messages, turns, dbUpdates>>

\* Object.keys(allFiles): the paths, in the order the stored JSON objects
\* and the merge gave them, which is any order of them here
KeyOrders(map) ==
    {keys \in [1..Cardinality(DOMAIN map) -> DOMAIN map] :
        \A i, j \in DOMAIN keys : i # j => keys[i] # keys[j]}

\* the writes of the loop of setup-sandbox.ts:57-60 up to the first that throws
Written(allFiles, keys, failAt) ==
    LET done == IF failAt = 0 THEN Len(keys) ELSE failAt - 1
    IN  [p \in {keys[i] : i \in 1..done} |-> allFiles[p]]

\* step write-files (setup-sandbox.ts:56-61); failAt = k > 0: the k-th
\* sandbox.files.write throws, and the step with it
SetupWriteFiles(keys, failAt) ==
    /\ setup.pc = "write-files"
    /\ keys \in KeyOrders(setup.allFiles)
    /\ failAt <= Len(keys)
    /\ setup' = [setup EXCEPT !.written = Written(setup.allFiles, keys, failAt),
                              !.pc = IF failAt = 0 THEN "setup-backend" ELSE "failed",
                              !.error = IF failAt = 0 THEN "" ELSE "write-files"]
    /\ UNCHANGED <<loopVars, gitPushes, exceptions, libVars, impl, orch, sent, runQueue, run, project,
                   messages, turns, dbUpdates>>

SchemaPath == "prisma/schema.prisma"

\* the commands of setup-sandbox.ts:67-75 in order
BootstrapCommands(allFiles) ==
    (IF SchemaPath \in DOMAIN allFiles /\ allFiles[SchemaPath] # ""
     THEN <<"npx prisma generate">> ELSE <<>>)
    \o <<"pnpm install", "pnpm dev &">>

\* step setup-backend (setup-sandbox.ts:64-82); failAt = k > 0: the k-th
\* sandbox.commands.run throws; the catch logs it and the step returns a string
SetupBackendRethrows(failAt) ==
    /\ setup.pc = "setup-backend"
    /\ LET cmds == BootstrapCommands(setup.allFiles) IN
         /\ failAt <= Len(cmds)
         /\ setup' = [setup EXCEPT
                !.commands = SubSeq(cmds, 1, IF failAt = 0 THEN Len(cmds) ELSE failAt),
                !.backend = IF failAt = 0 THEN "Backend setup complete"
                            ELSE "Error during backend setup",
                !.pc = IF failAt = 0 THEN "update-project" ELSE "failed",
                !.error = IF failAt = 0 THEN "" ELSE "setup-backend"]
         /\ exceptions' = exceptions
    /\ UNCHANGED <<loopVars, gitPushes, libVars, impl, orch, sent, runQueue, run, project,
                   messages, turns, dbUpdates>>

SetupBackend(failAt) ==
    /\ setup.pc = "setup-backend"
    /\ LET cmds == BootstrapCommands(setup.allFiles) IN
         /\ failAt <= Len(cmds)
         /\ setup' = [setup EXCEPT
                !.commands = SubSeq(cmds, 1, IF failAt = 0 THEN Len(cmds) ELSE failAt),
                !.backend = IF failAt = 0 THEN "Backend setup complete"
                            ELSE "Error during backend setup",
                !.pc = "update-project"]
         /\ exceptions' = IF failAt = 0 THEN exceptions
                          ELSE Append(exceptions,
                                      Exception(SetupRun, "setup-backend", cmds[failAt], "catch"))
    /\ UNCHANGED <<loopVars, gitPushes, libVars, impl, orch, sent, runQueue, run, project,
                   messages, turns, dbUpdates>>

\* `https://${sandbox.getHost(3000)}` (setup-sandbox.ts:84-85)
PreviewUrl(sandboxId) == <<"https://", sandboxId, "3000">>

\* prisma.project.update of setup-sandbox.ts:88-94
ApplySetupUpdate(row, upd) ==
    [row EXCEPT !.sandboxId = <<upd.sandboxId>>, !.previewUrl = <<upd.previewUrl>>]

\* setup-sandbox.ts:84-94: the preview URL and the project update; the update
\* of a project without a row throws
SetupUpdateProject ==
    /\ setup.pc = "update-project"
    /\ LET previewUrl == PreviewUrl(setup.sandbox[1])
           upd == [sandboxId |-> setup.sandbox[1], previewUrl |-> previewUrl]
           p == setup.projectId
       IN  IF ProjectExists(p)
           THEN /\ project' = [project EXCEPT ![p] = <<ApplySetupUpdate(@[1], upd)>>]
                /\ dbUpdates' = Append(dbUpdates, [by |-> SetupRun, projectId |-> p, data |-> upd])
                /\ setup' = [setup EXCEPT !.pc = "sandbox-ready", !.previewUrl = <<previewUrl>>]
           ELSE /\ FailSetup("update-project")
                /\ UNCHANGED <<project, dbUpdates>>
    /\ UNCHANGED <<loopVars, gitPushes, exceptions, libVars, impl, orch, sent, runQueue, run,
                   messages, turns>>

\* the event of setup-sandbox.ts:97-104
ReadyEvent(projectId, previewUrl, sandboxId) ==
    [name |-> "sandbox.ready",
     data |-> [projectId |-> projectId, previewUrl |-> previewUrl, sandboxId |-> sandboxId]]

\* step sandbox-ready and the return (setup-sandbox.ts:97-109)
SetupSandboxReady ==
    /\ setup.pc = "sandbox-ready"
    /\ sent' = [sent EXCEPT ![SetupRun] =
                   Append(@, ReadyEvent(setup.projectId, setup.previewUrl[1], setup.sandbox[1]))]
    /\ setup' = [setup EXCEPT !.pc = "done"]
    /\ UNCHANGED <<loopVars, gitPushes, exceptions, libVars, impl, orch, runQueue, run, project,
                   messages, turns, dbUpdates>>

-----------------------------------------------------------------------------
(* The conversation store used on its own (conversation.ts) *)

MaxTurns == 11
MaxOtherTurns == 1
MaxTies == 2

\* addConversationTurn (conversation.ts:54-66); a context returned earlier has
\* been consumed by its caller
AddConversationTurn(projectId, role, content, tick) ==
    /\ turns' = Append(turns, Turn("api", projectId, role, content, CreatedAt(tick)))
    /\ context' = <<>>
    /\ UNCHANGED <<loopVars, gitPushes, exceptions, setup, callerManifest, call, impl, orch, sent,
                   runQueue, run, project, messages, dbUpdates>>

\* a call of getConversationContext returns
GetConversationContext(projectId, tie) ==
    /\ context' = <<getConversationContext(projectId, tie)>>
    /\ UNCHANGED <<loopVars, gitPushes, exceptions, setup, callerManifest, call, impl, orch, sent,
                   runQueue, run, project, messages, turns, dbUpdates>>

\* rows inserted in the same millisecond as the row before them
Ties == {i \in 2..Len(turns) : turns[i].createdAt = turns[i - 1].createdAt}

-----------------------------------------------------------------------------
(* Specifications *)

IdleSetup == [pc |-> "idle", projectId |-> "p1", fragments |-> <<>>, allFiles |-> EmptyMap,
              error |-> "", sandbox |-> <<>>, written |-> EmptyMap, commands |-> <<>>,
              backend |-> "", previewUrl |-> <<>>]

ProjectRows ==
    {[digest |-> "", manifest |-> <<>>, repoUrl |-> u, sandboxId |-> <<>>, previewUrl |-> <<>>] :
        u \in {NoRepo, RepoUrl}}

InitExceptTables ==
    /\ impl \in {1, 2}
    /\ orch = [g \in GenIds |-> IdleOrch]
    /\ sent = [i \in GenIds \cup RunIds \cup {SetupRun} |-> <<>>]
    /\ runQueue = {}
    /\ run = [r \in RunIds |-> IdleRun]
    /\ turns = <<>>
    /\ dbUpdates = <<>>
    /\ gitPushes = <<>>
    /\ exceptions = <<>>
    /\ setup = IdleSetup
    /\ callerManifest = <<>>
    /\ call = <<>>
    /\ context = <<>>
    /\ net = [r \in RunIds |-> IdleNet]
    /\ sandboxes = [id \in RunIds |-> EmptyMap]

Init ==
    /\ InitExceptTables
    /\ \E row \in ProjectRows : project = [p \in Projects |-> IF p = "p1" THEN <<row>> ELSE <<>>]
    /\ messages = <<>>

OrchStep ==
    \/ \E g \in GenIds, p \in Projects, v \in Values : Generate(g, p, v)
    \/ \E g \in GenIds : FanOut(g)
    \/ \E p \in Projects, st \in StepTypes : FinishedArrives(p, st)
    \/ \E g \in GenIds : WaitAllComplete(g)
    \/ \E g \in GenIds : WaitAllTimeout(g)
    \/ \E g \in GenIds : TriggerSetup(g)

\* the steps of the runs in slots Rs; Again = {FALSE}: the body of every step
\* is executed once, Again = BOOLEAN: the substrate may execute it again
RunStep(Rs, Again) ==
    \/ \E r \in Rs, ok \in BOOLEAN : GetSandboxId(r, ok)
    \/ \E r \in Rs : LoadProject(r)
    \/ \E r \in Rs : PreparePrompt(r)
    \/ \E r \in Rs, again \in Again : SaveUserTurn(r, again)
    \/ \E r \in Rs, result \in NetworkResults : NetworkRun(r, result)
    \/ \E r \in Rs, ok \in BOOLEAN : GetSandboxUrl(r, ok)
    \/ \E r \in Rs, again \in Again, ok \in BOOLEAN : UpdateRollingSummary(r, again, ok)
    \/ \E r \in Rs, again \in Again : SaveAssistantTurn(r, again)
    \/ \E r \in Rs, again \in Again : SaveResult(r, again)

Next ==
    \/ OrchStep
    \/ \E r \in RunIds, d \in FanOutData : StartRun(r, d)
    \/ \E r \in RunIds, d \in IterateEvents : RunTriggered(r, d)
    \/ RunStep(RunIds, BOOLEAN)

Spec == Init /\ [][Next]_vars

\* the orchestrator alone: its run events are sent and stay queued. The
\* substrate runs every step of a triggered function that is ready to run.
NextFanOut == OrchStep

FairFanOut ==
    \A g \in GenIds :
        /\ WF_vars(FanOut(g))
        /\ WF_vars(WaitAllComplete(g))
        /\ WF_vars(TriggerSetup(g))

SpecFanOut == Init /\ [][NextFanOut]_vars /\ FairFanOut

\* the runs alone, every step body executed once
NextRun ==
    \/ \E r \in RunIds, d \in RunRequests : RunTriggered(r, d)
    \/ RunStep(RunIds, {FALSE})

SpecRun == Init /\ [][NextRun]_vars

\* one run under at-least-once execution of its step bodies
NextAtLeastOnce ==
    \/ \E d \in RunRequests : RunTriggered("r1", d)
    \/ RunStep({"r1"}, BOOLEAN)

SpecAtLeastOnce == Init /\ [][NextAtLeastOnce]_vars

\* the rolling-summary library on its own
InitLibrary == Init /\ impl = 1 /\ project["p1"][1].repoUrl = NoRepo

\* calls with the default options
NextManifest ==
    \E items \in ChangedBatches : Summarise(items, NoOpts, "t1")

SpecManifest == InitLibrary /\ [][NextManifest]_vars

\* calls that vary the cap, with the default summariser or an injected one
NextDigest ==
    \E cap \in {<<>>} \cup {<<n>> : n \in 0..MaxCap} :
        \/ \E items \in {<<>>, <<[path |-> "app/page.tsx", content |-> "<div />"]>>} :
              Summarise(items, [maxDigestBytes |-> cap, summariseFn |-> <<>>], "t1")
        \/ \E o \in SummariserOutcomes :
              Summarise(<<>>, [maxDigestBytes |-> cap, summariseFn |-> <<o>>], "t1")

SpecDigest == InitLibrary /\ [][NextDigest]_vars

\* the conversation store on its own: in each project USER and ASSISTANT
\* turns alternate
NextConversation ==
    \/ \E projectId \in Projects, tick \in BOOLEAN :
          LET n == Cardinality(ProjectTurnIds(projectId)) IN
          /\ Len(turns) < MaxTurns
          /\ projectId = "p2" => n < MaxOtherTurns
          /\ ~tick => (turns # <<>> /\ Cardinality(Ties) < MaxTies)
          /\ AddConversationTurn(projectId,
                                 IF n % 2 = 0 THEN "USER" ELSE "ASSISTANT",
                                 IF n % 2 = 0 THEN "build a todo app" ELSE MarkerText,
                                 tick)
    \/ \E projectId \in Projects, tie \in BOOLEAN : GetConversationContext(projectId, tie)

SpecConversation == InitLibrary /\ [][NextConversation]_vars

\* the runs, every step body executed once, and one run of setupSandbox
NextAssembly ==
    \/ NextRun
    \/ \E projectId \in Projects : SetupSandboxStarts(projectId)
    \/ SetupMergeFragments

SpecAssembly == Init /\ [][NextAssembly]_vars

\* the steps of a run of the first definition other than network.run
StepsAroundNetwork(Rs) ==
    \/ \E r \in Rs, ok \in BOOLEAN : GetSandboxId(r, ok)
    \/ \E r \in Rs : LoadProject(r)
    \/ \E r \in Rs, ok \in BOOLEAN : GetSandboxUrl(r, ok)
    \/ \E r \in Rs : UpdateRollingSummary(r, FALSE, TRUE)
    \/ \E r \in Rs : SaveResult(r, FALSE)

LoopRequest == [projectId |-> "p1", value |-> "build a todo app", stepType |-> "backend"]

\* the responses of the model: any text, and no tool call, a terminal or
\* readFiles call, or a createOrUpdateFiles call of at most two files, any of
\* whose writes may fail
LoopResponses ==
    {resp \in Responses :
        resp.tool.name = "createOrUpdateFiles" =>
            resp.tool.files \in {<<>>} \cup {<<w>> : w \in FileWrites}
                                 \cup {<<v, w>> : v, w \in FileWrites}}

\* one run, its network.run executed iteration by iteration
NextLoop ==
    \/ RunTriggered("r1", LoopRequest)
    \/ StepsAroundNetwork({"r1"})
    \/ \E resp \in LoopResponses, ok \in BOOLEAN : NetworkDispatch("r1", resp, ok)
    \/ NetworkReturns("r1")

\* a response with text and no tool call
PlainResponse == [text |-> "working on it", tool |-> [name |-> "none"]]

\* network.run does not stall: while an iteration can be made the model ends
\* up answering, and network.run returns when none can.  Fairness of the plain
\* response excludes exactly the stalling runs, as every iteration counts
\* towards maxIter whatever the response
FairLoop ==
    /\ WF_vars(NetworkDispatch("r1", PlainResponse, TRUE))
    /\ WF_vars(NetworkReturns("r1"))

SpecLoop == InitLibrary /\ [][NextLoop]_vars /\ FairLoop

\* two runs of one project (two branches of a fan-out) whose networks run at
\* the same time; r1 writes c1 and r2 writes c2 to the same path
BranchRequest(r) ==
    [projectId |-> "p1", value |-> "build a todo app",
     stepType |-> IF r = "r1" THEN "frontend" ELSE "backend"]

BranchResponses(r) ==
    {resp \in LoopResponses :
        resp.tool \in {[name |-> "none"],
                       [name |-> "createOrUpdateFiles", failAt |-> 0,
                        files |-> <<[path |-> "app/page.tsx",
                                     content |-> IF r = "r1" THEN "c1" ELSE "c2"]>>]}}

NextBranches ==
    \/ \E r \in RunIds : RunTriggered(r, BranchRequest(r))
    \/ \E r \in RunIds : GetSandboxId(r, TRUE)
    \/ \E r \in RunIds : LoadProject(r)
    \/ \E r \in RunIds : \E resp \in BranchResponses(r) : NetworkDispatch(r, resp, TRUE)
    \/ \E r \in RunIds : NetworkReturns(r)

SpecBranches == InitLibrary /\ [][NextBranches]_vars

\* the sandbox.setup event sent by run g of the orchestrator triggers
\* setupSandbox (setup-sandbox.ts:8-12)
SetupTriggered(g) ==
    \E k \in 1..Len(sent[g]) :
        /\ sent[g][k].name = "sandbox.setup"
        /\ SetupSandboxStarts(sent[g][k].data.projectId)

\* what a network returns in the pipeline: nothing, or a summary with a file
PipelineResults ==
    {EmptyState} \cup {[summary |-> MarkerText, files |-> <<"app/page.tsx" :> c>>] : c \in Contents}

FollowUpRequest == [projectId |-> "p1", value |-> "build a todo app", isFollowUp |-> TRUE]

\* one project.generate request from its fan-out to the merge of setupSandbox,
\* with a follow-up run of the same project made from the iterate route
NextPipeline ==
    \/ Generate("g1", "p1", "build a todo app")
    \/ FanOut("g1")
    \/ \E st \in StepTypes : FinishedArrives("p1", st)
    \/ WaitAllComplete("g1")
    \/ WaitAllTimeout("g1")
    \/ TriggerSetup("g1")
    \/ \E r \in RunIds, d \in FanOutData : StartRun(r, d)
    \/ \E r \in RunIds : RunTriggered(r, FollowUpRequest)
    \/ \E r \in RunIds : GetSandboxId(r, TRUE)
    \/ \E r \in RunIds : LoadProject(r)
    \/ \E r \in RunIds, result \in PipelineResults : NetworkRun(r, result)
    \/ \E r \in RunIds : GetSandboxUrl(r, TRUE)
    \/ \E r \in RunIds : UpdateRollingSummary(r, FALSE, TRUE)
    \/ \E r \in RunIds : SaveResult(r, FALSE)
    \/ SetupTriggered("g1")
    \/ SetupMergeFragments

SpecPipeline == InitLibrary /\ [][NextPipeline]_vars

\* setupSandbox on its own, on the results that earlier runs persisted: up to
\* MaxStored messages, of type ERROR or of type RESULT with a fragment
MaxStored == 3

StoredFiles ==
    {"app/page.tsx" :> "c1", "app/page.tsx" :> "c2", SchemaPath :> "c1",
     ("app/page.tsx" :> "c1") @@ (SchemaPath :> "c2")}

StoredMessages ==
    {ResultMessage("r1", "p1", EmptyState, TRUE, <<>>)}
    \cup {ResultMessage("r1", projectId, [summary |-> MarkerText, files |-> <<files>>], FALSE,
                        SandboxUrl("r1")) :
             projectId \in Projects, files \in StoredFiles}

InitStored ==
    /\ InitExceptTables
    /\ impl = 1
    /\ project = [p \in Projects |-> <<CHOOSE row \in ProjectRows : row.repoUrl = NoRepo>>]
    /\ messages \in UNION {[1..n -> StoredMessages] : n \in 0..MaxStored}

NextSetup ==
    \/ SetupSandboxStarts("p1")
    \/ SetupMergeFragments
    \/ \E ok \in BOOLEAN : SetupCreateSandbox(ok)
    \/ \E keys \in KeyOrders(setup.allFiles), failAt \in 0..2 : SetupWriteFiles(keys, failAt)
    \/ \E failAt \in 0..3 : SetupBackend(failAt)
    \/ SetupUpdateProject
    \/ SetupSandboxReady

\* the substrate runs every step of the function that is ready to run
FairSetup ==
    /\ WF_vars(\E failAt \in 0..3 : SetupBackend(failAt))
    /\ WF_vars(SetupUpdateProject)
    /\ WF_vars(SetupSandboxReady)

SpecSetup == InitStored /\ [][NextSetup]_vars /\ FairSetup

-----------------------------------------------------------------------------
(* Claims *)

\* the events of function run i with the given name, as positions of sent[i]
SentAt(i, name) == {k \in 1..Len(sent[i]) : sent[i][k].name = name}

MessagesBy(r) == {k \in 1..Len(messages) : messages[k].by = r}
TurnsBy(r, role) == {k \in 1..Len(turns) : turns[k].by = r /\ turns[k].role = role}
UpdatesBy(r) == {k \in 1..Len(dbUpdates) : dbUpdates[k].by = r}

\* C1: the orchestrator sends sandbox.setup if and only if the three
\* code-agent/finished events of its project (frontend, backend, database)
\* have all arrived before the timeouts; a wait that timed out sends nothing.
C1_AssembleIffAllFinished ==
    \A g \in GenIds :
        /\ SentAt(g, "sandbox.setup") # {} => (orch[g].got = StepTypes /\ ~orch[g].timedOut)
        /\ (orch[g].pc = "done" /\ orch[g].got = StepTypes) => SentAt(g, "sandbox.setup") # {}

\* C2: every run of codeAgentFunction that ran to completion has sent a
\* code-agent/finished event with its projectId and stepType.
C2_CompletedRunEmitsFinished ==
    \A r \in RunIds :
        run[r].pc = "done" =>
            \E k \in SentAt(r, "code-agent/finished") :
                /\ sent[r][k].data.projectId = data(r).projectId
                /\ sent[r][k].data.stepType = StepTypeOf(data(r))

\* what a run of the orchestrator has sent, at each point of the handler
FanOutThreeThenOneTrigger ==
    \A g \in GenIds :
        LET runs == SentAt(g, "code-agent/run")
            setups == SentAt(g, "sandbox.setup")
        IN  /\ orch[g].pc \in {"idle", "fan-out"} => sent[g] = <<>>
            /\ orch[g].pc \notin {"idle", "fan-out"} =>
                  /\ runs = {1, 2, 3}
                  /\ {sent[g][k].data : k \in runs} =
                       {[projectId |-> orch[g].projectId, value |-> orch[g].value,
                         stepType |-> st] : st \in StepTypes}
            /\ orch[g].pc \in {"wait-all", "setup-sandbox"} => setups = {}
            /\ Cardinality(setups) <= 1
            /\ orch[g].pc = "done" =>
                  /\ setups = {4}
                  /\ Len(sent[g]) = 4
                  /\ sent[g][4].data = [projectId |-> orch[g].projectId]

\* C3: a run of the orchestrator sends exactly three code-agent/run events, one
\* per stepType, each with the projectId and value of its project.generate
\* event, and nothing before the fan-out; it sends at most one sandbox.setup
\* event, only after the wait, carrying only the projectId; and once the three
\* finished events of its project have arrived during the wait, it goes on to
\* send exactly one.
C3_FanOutThreeThenOneTrigger ==
    /\ []FanOutThreeThenOneTrigger
    /\ \A g \in GenIds :
          (orch[g].pc = "wait-all" /\ orch[g].got = StepTypes)
             ~> (orch[g].pc = "done" /\ Cardinality(SentAt(g, "sandbox.setup")) = 1)

C3_Witness ==
    \E g \in GenIds :
        /\ orch[g].pc = "done"
        /\ orch[g].got = StepTypes
        /\ ~orch[g].timedOut
        /\ Cardinality(SentAt(g, "sandbox.setup")) = 1
        /\ Cardinality(SentAt(g, "code-agent/run")) = 3

\* C4: every message a run persists as its result is of type ERROR if the
\* run's summary is empty or its files map is empty, and of type RESULT
\* otherwise; a run with a summary and no files persists ERROR.
C4_ClassificationErrorIffNoSummaryOrNoFiles ==
    \A k \in 1..Len(messages) :
        LET st == run[messages[k].by].state
            noSummary == st.summary = NoSummary
            noFiles == st.files = NoFiles \/ DOMAIN st.files[1] = {}
        IN  /\ messages[k].type \in {"ERROR", "RESULT"}
            /\ messages[k].type = "ERROR" <=> (noSummary \/ noFiles)

C4_Witness ==
    \E k \in 1..Len(messages) :
        /\ messages[k].type = "ERROR"
        /\ run[messages[k].by].state.summary = MarkerText
        /\ FileCount(run[messages[k].by].state.files) = 0
        /\ \E j \in 1..Len(messages) : messages[j].type = "RESULT"

\* C5: a run never persists more than one message, and a run that is done has
\* persisted exactly one, of role ASSISTANT: of type ERROR with the fixed text
\* and no fragment when the run is classified as error, otherwise of type
\* RESULT with the summary and a fragment holding the files and the preview
\* URL; also when the body of step save-result is executed more than once.
C5_ExactlyOneResultMessage ==
    \A r \in RunIds :
        /\ Cardinality(MessagesBy(r)) <= 1
        /\ run[r].pc = "done" =>
              /\ Cardinality(MessagesBy(r)) = 1
              /\ \A k \in MessagesBy(r) :
                    /\ messages[k].role = "ASSISTANT"
                    /\ messages[k].projectId = data(r).projectId
                    /\ IF run[r].isError
                       THEN /\ messages[k].type = "ERROR"
                            /\ messages[k].content = ErrorContent
                            /\ messages[k].fragment = <<>>
                       ELSE /\ messages[k].type = "RESULT"
                            /\ messages[k].content = run[r].state.summary
                            /\ Len(messages[k].fragment) = 1
                            /\ messages[k].fragment[1].files = run[r].state.files
                            /\ messages[k].fragment[1].sandboxUrl = run[r].sandboxUrl

\* C6: a run whose step get-sandbox-id failed has failed with that error and
\* has persisted nothing: no message, no conversation turn, no project update.
C6_SandboxFailurePersistsNothing ==
    \A r \in RunIds :
        (run[r].pc = "failed" /\ run[r].error = "get-sandbox-id") =>
            /\ MessagesBy(r) = {}
            /\ TurnsBy(r, "USER") = {}
            /\ TurnsBy(r, "ASSISTANT") = {}
            /\ UpdatesBy(r) = {}
            /\ run[r].sandboxId = ""

C6_Witness ==
    \E r \in RunIds :
        /\ run[r].pc = "failed"
        /\ run[r].error = "get-sandbox-id"
        /\ messages # <<>>

\* C7: a step of a run whose completion signal (summary) is unset issues no
\* project update and leaves every project row, so its manifest and digest,
\* as it was.
C7_NoSignalNoManifestWrite ==
    [][\A r \in RunIds :
          (run'[r] # run[r] /\ run'[r].state.summary = NoSummary) =>
              (project' = project /\ dbUpdates' = dbUpdates)]_vars

C7_Witness ==
    \E r \in RunIds :
        /\ run[r].pc = "done"
        /\ run[r].state.summary = NoSummary
        /\ FileCount(run[r].state.files) > 0
        /\ UpdatesBy(r) = {}
        /\ dbUpdates # <<>>

\* C8: a run that is done has persisted exactly one ASSISTANT conversation
\* turn, holding its summary, if it is not classified as error, and none if it is.
C8_OneAssistantTurnIffSuccess ==
    \A r \in RunIds :
        run[r].pc = "done" =>
            /\ Cardinality(TurnsBy(r, "ASSISTANT")) = (IF run[r].isError THEN 0 ELSE 1)
            /\ \A k \in TurnsBy(r, "ASSISTANT") : turns[k].content = run[r].state.summary

\* C9: a run whose agent loop has started, or is over, has persisted exactly
\* one USER conversation turn holding the request of its event.
C9_OneUserTurnBeforeLoop ==
    \A r \in RunIds :
        run[r].pc \in {"network.run", "get-sandbox-url", "update-rolling-summary",
                       "save-assistant-turn", "save-result", "done"} =>
            /\ Cardinality(TurnsBy(r, "USER")) = 1
            /\ \A k \in TurnsBy(r, "USER") :
                  /\ turns[k].content = data(r).value
                  /\ turns[k].projectId = data(r).projectId

\* C10: a run that is done, is classified as success and whose project row has
\* a repoUrl has pushed its files to that repository, branch main, with the
\* commit message 'chore(builder): auto-sync generated files'.
C10_SuccessWithRepoPushes ==
    \A r \in RunIds :
        (/\ run[r].pc = "done"
         /\ ~run[r].isError
         /\ run[r].project # <<>>
         /\ run[r].project[1].repoUrl # NoRepo) =>
            \E k \in 1..Len(gitPushes) :
                /\ gitPushes[k].repoUrl = run[r].project[1].repoUrl
                /\ gitPushes[k].branch = "main"
                /\ gitPushes[k].commitMessage = "chore(builder): auto-sync generated files"

ExceptionsIn(step) == {k \in 1..Len(exceptions) : exceptions[k].step = step}

\* C11: every exception raised in the best-effort step of a successful run
\* (the manifest update) is caught by the step and logged; the run does not
\* fail with it, its isError stays the value computed at classification, and
\* once the run is done its RESULT message is persisted.
C11_BestEffortExceptionCaught ==
    \A k \in ExceptionsIn("update-rolling-summary") :
        LET r == exceptions[k].by IN
        /\ exceptions[k].handledBy = "catch"
        /\ run[r].error # "update-rolling-summary"
        /\ run[r].isError = IsError(run[r].state)
        /\ ~run[r].isError
        /\ run[r].pc = "done" =>
              \E m \in MessagesBy(r) : messages[m].type = "RESULT"

\* the last call of updateRollingSummary, when it resolved
Resolved == call # <<>> /\ call[1].result.status = "fulfilled"
Returned == call[1].result.value[1]
FilesBefore == IF call[1].prev = <<>> THEN EmptyObject ELSE call[1].prev[1].files[1]
FilesAfter == Returned.manifest.files[1]
ChangedPaths == {call[1].changedFiles[i].path : i \in 1..Len(call[1].changedFiles)}
\* the content of the last pair given for a path
LastContent(path) ==
    LET items == call[1].changedFiles
        last == CHOOSE i \in 1..Len(items) :
                   /\ items[i].path = path
                   /\ \A j \in (i + 1)..Len(items) : items[j].path # path
    IN  items[last].content
\* the text the summariser returned in the last call
RawDigest ==
    IF call[1].opts.summariseFn = <<>> THEN defaultSummarise(Returned.manifest)
    ELSE call[1].opts.summariseFn[1].text
CapOfCall ==
    IF call[1].opts.maxDigestBytes = <<>> THEN 3000 ELSE call[1].opts.maxDigestBytes[1]

\* C12: the digest a call returns has at most maxDigestBytes UTF-8 bytes
\* (3000 when the option is absent), and it ends with '...' if and only if
\* the text the summariser returned had more bytes than that.
C12_DigestWithinCap ==
    Resolved =>
        /\ ByteLength(Returned.digest) <= CapOfCall
        /\ EndsWith(Returned.digest, <<".", ".", ".">>) <=> (ByteLength(RawDigest) > CapOfCall)

\* C13: a call that repeats the changedFiles of the call before it leaves, for
\* every path of changedFiles, the FileMeta (path, hash, size, kind) that call
\* produced, and leaves the list of file paths as it was.
C13_SameUpdateTwiceSameMeta ==
    (Resolved /\ call[1].repeated) =>
        /\ \A p \in ChangedPaths : FilesAfter.get[p] = FilesBefore.get[p]
        /\ FilesAfter.keys = FilesBefore.keys

C13_Witness ==
    /\ Resolved
    /\ call[1].repeated
    /\ Cardinality(ChangedPaths) = 2
    /\ FilesAfter.get["app/page.tsx"].size = 5

\* C14: a call leaves the object passed as prev as it was before the call,
\* whether the call resolves or the summariser rejects.
C14_PrevNotModified ==
    call # <<>> => call[1].result.prev = call[1].prev

\* C15: after a call the files map has exactly the paths of prev and of
\* changedFiles, each once; a changed path holds the FileMeta of the last pair
\* given for it, any other path the FileMeta it had; from prev = null the
\* number of entries is the number of distinct paths given.
C15_FilesAreUnionLastWriteWins ==
    Resolved =>
        /\ DOMAIN FilesAfter.get = (DOMAIN FilesBefore.get) \cup ChangedPaths
        /\ SeqToSet(FilesAfter.keys) = DOMAIN FilesAfter.get
        /\ Len(FilesAfter.keys) = Cardinality(DOMAIN FilesAfter.get)
        /\ \A p \in ChangedPaths :
              /\ FilesAfter.get[p].path = p
              /\ FilesAfter.get[p].hash = sha1(LastContent(p))
              /\ FilesAfter.get[p].size = (IF LastContent(p) = "café" THEN 5 ELSE 7)
              /\ FilesAfter.get[p].kind = (IF p = "logo.png" THEN "asset" ELSE "code")
        /\ \A p \in (DOMAIN FilesBefore.get) \ ChangedPaths :
              FilesAfter.get[p] = FilesBefore.get[p]
        /\ call[1].prev = <<>> => Len(FilesAfter.keys) = Cardinality(ChangedPaths)

C15_Witness ==
    /\ Resolved
    /\ call[1].prev # <<>>
    /\ Len(call[1].changedFiles) = 2
    /\ ChangedPaths = {"app/page.tsx"}
    /\ call[1].changedFiles[1].content # call[1].changedFiles[2].content
    /\ "app/page.tsx" \in DOMAIN FilesBefore.get
    /\ FilesBefore.get["app/page.tsx"].hash # FilesAfter.get["app/page.tsx"].hash
    /\ "schema.prisma" \in DOMAIN FilesBefore.get

\* C16: after a call, routes holds app/page.tsx exactly when the files map
\* has it, and models holds schema.prisma exactly when the files map has it,
\* whether the path came with this call or was in prev; logo.png is in
\* neither, and neither list holds anything else.
C16_RoutesAndModelsFromAllFiles ==
    Resolved =>
        LET m == Returned.manifest IN
        /\ SeqToSet(m.routes) = {"app/page.tsx"} \cap DOMAIN FilesAfter.get
        /\ SeqToSet(m.models) = {"schema.prisma"} \cap DOMAIN FilesAfter.get

C16_Witness ==
    /\ Resolved
    /\ ChangedPaths = {"logo.png"}
    /\ {"app/page.tsx", "schema.prisma"} \subseteq DOMAIN FilesBefore.get
    /\ Returned.manifest.routes = <<"app/page.tsx">>
    /\ Returned.manifest.models = <<"schema.prisma">>

\* C17: once a successful run is done, the persisted manifest of its project
\* exists and its files hold every path the run wrote, whatever other runs of
\* the project did before, meanwhile or afterwards.
C17_PersistedManifestHoldsWrittenPaths ==
    \A r \in RunIds :
        (run[r].pc = "done" /\ ~run[r].isError) =>
            LET row == project[data(r).projectId] IN
            /\ row # <<>>
            /\ row[1].manifest # <<>>
            /\ DOMAIN run[r].state.files[1] \subseteq DOMAIN row[1].manifest[1].files[1].get

\* C18: the turns of a returned context are the min(n, 10) most recently
\* created turns of the project (n: the number of its turns): each is a row
\* of the project, no row twice, no row left out is newer than a row
\* returned, and they are in non-decreasing createdAt order.
C18_ContextIsRecentWindowOldestFirst ==
    context # <<>> =>
        LET got == context[1].turns
            ids == ProjectTurnIds(context[1].projectId)
            n == Cardinality(ids)
            returned == {got[k].id : k \in 1..Len(got)}
        IN  /\ Len(got) = (IF n < 10 THEN n ELSE 10)
            /\ returned \subseteq ids
            /\ Cardinality(returned) = Len(got)
            /\ \A k \in 1..Len(got) :
                  /\ got[k].role = turns[got[k].id].role
                  /\ got[k].content = turns[got[k].id].content
                  /\ got[k].createdAt = turns[got[k].id].createdAt
            /\ \A i \in returned, j \in ids \ returned :
                  turns[i].createdAt >= turns[j].createdAt
            /\ \A k \in 1..(Len(got) - 1) : got[k].createdAt <= got[k + 1].createdAt

C18_Witness ==
    /\ context # <<>>
    /\ context[1].projectId = "p1"
    /\ Cardinality(ProjectTurnIds("p1")) = 11
    /\ Len(context[1].turns) = 10
    /\ context[1].turns[1].createdAt < context[1].turns[10].createdAt
    /\ turns[1].projectId = "p1" /\ turns[2].projectId = "p1"
    /\ turns[1].createdAt = turns[2].createdAt
    /\ context[1].turns[1].id \in {1, 2}

\* C19: when a code-agent/run request is made, the isFollowUp value the run
\* will use is TRUE exactly when the project has at least one persisted
\* conversation turn at that time.
C19_FollowUpIffTurnsExist ==
    [][\A r \in RunIds :
          (run[r].pc = "idle" /\ run'[r].pc = "get-sandbox-id") =>
              (IsFollowUp(run'[r].data) <=> ProjectTurnIds(run'[r].data.projectId) # {})]_vars

\* C20: in the file map merged for assembly, every path holds the content it
\* has in the newest of the loaded fragments that contain it; so a path of
\* only one fragment is carried over unchanged, and for a path of several the
\* most recently created fragment wins.
C20_NewestFragmentWins ==
    setup.pc = "create-sandbox" =>
        LET filesOf(k) == messages[k].fragment[1].files[1]
            loaded == SeqToSet(setup.fragments)
        IN  /\ DOMAIN setup.allFiles = UNION {DOMAIN filesOf(k) : k \in loaded}
            /\ \A path \in DOMAIN setup.allFiles :
                  LET having == {k \in loaded : path \in DOMAIN filesOf(k)}
                      newest == CHOOSE k \in having : \A j \in having : j <= k
                  IN  setup.allFiles[path] = filesOf(newest)[path]

-----------------------------------------------------------------------------
(* What the second definition of codeAgentFunction (functions.ts:280-522)
   does where the first (functions.ts:20-260) has no such step, and what a run
   persists when every step body is executed once *)

SecondDefinitionSavesAssistantTurn == impl = 2 => C8_OneAssistantTurnIffSuccess

SecondDefinitionSavesUserTurn == impl = 2 => C9_OneUserTurnBeforeLoop

OneMessageWhenStepsRunOnce ==
    \A r \in RunIds : run[r].pc = "done" => Cardinality(MessagesBy(r)) = 1

\* the exceptions the catch of update-rolling-summary does see leave the run
\* as C11 says
CaughtUpdateFailureKeepsResult ==
    \A k \in ExceptionsIn("update-rolling-summary") :
        LET r == exceptions[k].by IN
        exceptions[k].handledBy = "catch" =>
            /\ run[r].error # "update-rolling-summary"
            /\ run[r].isError = IsError(run[r].state)
            /\ ~run[r].isError
            /\ run[r].pc = "done" =>
                  \E m \in MessagesBy(r) : messages[m].type = "RESULT"

\* a path that only one of the loaded fragments contains is merged unchanged
SinglePathCarriedOver ==
    setup.pc = "create-sandbox" =>
        \A path \in DOMAIN setup.allFiles :
            LET having == {k \in SeqToSet(setup.fragments) :
                              path \in DOMAIN messages[k].fragment[1].files[1]}
            IN  Cardinality(having) = 1 =>
                    \A k \in having :
                        setup.allFiles[path] = messages[k].fragment[1].files[1][path]

\* what setupSandbox has done outside its own record
SetupEffects ==
    [sandbox |-> setup.sandbox, written |-> setup.written, commands |-> setup.commands,
     sandboxId |-> project[setup.projectId][1].sandboxId,
     previewUrl |-> project[setup.projectId][1].previewUrl,
     updates |-> {k \in 1..Len(dbUpdates) : dbUpdates[k].by = SetupRun},
     events |-> sent[SetupRun]]

NoSetupEffects ==
    [sandbox |-> <<>>, written |-> EmptyMap, commands |-> <<>>, sandboxId |-> <<>>,
     previewUrl |-> <<>>, updates |-> {}, events |-> <<>>]

\* the project of the setup run has no fragment, or its fragments hold no file
NothingToAssemble ==
    LET found == FindManyFragments(setup.projectId)
    IN  found = <<>> \/ DOMAIN MergeFragments(EmptyMap, found) = {}

\* C21: a run of setupSandbox for a project without a fragment, or whose
\* fragments hold no file, has failed once it is past the loading of the
\* fragments, and has had no effect: no sandbox, no file written, no command
\* run, sandboxId and previewUrl of the project as they were, no project
\* update, no sandbox.ready event.
C21_NothingToAssembleFailsWithoutEffect ==
    (setup.pc \notin {"idle", "find-fragments"} /\ NothingToAssemble) =>
        /\ setup.pc = "failed"
        /\ setup.error \in {"No generated files found for sandbox setup.",
                            "No files found in fragments."}
        /\ SetupEffects = NoSetupEffects

C21_Witness ==
    /\ setup.pc = "failed"
    /\ setup.error = "No generated files found for sandbox setup."
    /\ Len(messages) = 3
    /\ \E k \in 1..3 : messages[k].projectId = "p2" /\ messages[k].fragment # <<>>
    /\ \E k \in 1..3 : messages[k].projectId = "p1" /\ messages[k].type = "ERROR"

\* the states of a setup run from the bootstrap on
SetupWritesBeforeBootstrap ==
    /\ (setup.pc \in {"setup-backend", "update-project", "sandbox-ready", "done"}
          \/ setup.commands # <<>>) => setup.written = setup.allFiles
    /\ ~(setup.pc = "failed" /\ setup.error = "setup-backend")
    /\ Len(sent[SetupRun]) <= 1
    /\ sent[SetupRun] # <<>> =>
          /\ sent[SetupRun][1] =
                ReadyEvent(setup.projectId, PreviewUrl(setup.sandbox[1]), setup.sandbox[1])
          /\ project[setup.projectId][1].sandboxId = <<setup.sandbox[1]>>
          /\ project[setup.projectId][1].previewUrl = <<PreviewUrl(setup.sandbox[1])>>
    /\ setup.pc = "done" => Len(sent[SetupRun]) = 1

\* C22: a setup run has written every merged file when its bootstrap starts;
\* it sends at most one sandbox.ready event, carrying the projectId, the
\* preview URL and the sandbox id, and only after it has persisted both on the
\* project row; and a run whose bootstrap has started, whether or not one of
\* its commands fails, goes on to persist them and to send the event.
C22_WriteAllThenPersistThenReady ==
    /\ []SetupWritesBeforeBootstrap
    /\ (setup.pc = "setup-backend") ~> (setup.pc = "done" /\ Len(sent[SetupRun]) = 1)

C22_Witness ==
    /\ setup.pc = "done"
    /\ setup.backend = "Error during backend setup"
    /\ setup.commands = <<"npx prisma generate">>
    /\ Cardinality(DOMAIN setup.written) = 2
    /\ Len(setup.fragments) = 2
    /\ Len(sent[SetupRun]) = 1
    /\ project["p1"][1].sandboxId = <<SetupSandboxId>>

\* state.data.files as a map: no property before the first assignment
FilesOf(state) == IF state.files = NoFiles THEN EmptyMap ELSE state.files[1]

\* the sandbox of a run
SandboxOf(r) == sandboxes[run[r].sandboxId]

\* C23: once the summary of a network is set, nothing of the network changes
\* any more: no further iteration is made, so no later marker is processed;
\* and an iteration sets the summary exactly when the text of its response
\* holds the marker, to that text.
C23_CompletionLatch ==
    [][\A r \in RunIds :
          /\ net[r].state.summary # NoSummary => net'[r] = net[r]
          /\ (net[r].state.summary = NoSummary /\ net'[r] # net[r]) =>
                /\ net'[r].iter = net[r].iter + 1
                /\ net'[r].state.summary # NoSummary <=> HasMarker(net'[r].last[1].text)
                /\ net'[r].state.summary # NoSummary =>
                      net'[r].state.summary = net'[r].last[1].text]_vars

C23_Witness ==
    /\ run["r1"].pc = "done"
    /\ net["r1"].iter = 3
    /\ net["r1"].state.summary = MarkerText
    /\ run["r1"].state.summary = MarkerText
    /\ net["r1"].last[1].tool.name = "createOrUpdateFiles"

\* the loop of a run is over
LoopOver(r) == run[r].pc \in {"get-sandbox-url", "update-rolling-summary",
                              "save-assistant-turn", "save-result", "done"}

CeilingKept ==
    \A r \in RunIds :
        /\ net[r].iter <= 15
        /\ (LoopOver(r) /\ net[r].iter = 15 /\ net[r].state.summary = NoSummary) =>
              /\ run[r].state.summary = NoSummary
              /\ run[r].isError
              /\ \A k \in MessagesBy(r) : messages[k].type = "ERROR"
              /\ run[r].pc = "done" => Cardinality(MessagesBy(r)) = 1

\* C24: a network makes at most 15 iterations; network.run always returns;
\* and a run whose network made 15 iterations without the marker has no
\* summary, is classified as error and persists an ERROR message.
C24_LoopTerminatesWithinCeiling ==
    /\ []CeilingKept
    /\ (run["r1"].pc = "network.run") ~> LoopOver("r1")

C24_Witness ==
    /\ run["r1"].pc = "done"
    /\ net["r1"].iter = 15
    /\ net["r1"].state.summary = NoSummary
    /\ FileCount(run["r1"].state.files) > 0
    /\ \E k \in MessagesBy("r1") : messages[k].type = "ERROR"

\* the paths of the writes of the last tool call that returned before the
\* failing one, with the content of the last such write
AppliedBeforeFailure(r) ==
    LET t == net[r].last[1].tool
    IN  ApplyWrites(EmptyMap, SubSeq(t.files, 1, t.failAt - 1))

\* C25: after a createOrUpdateFiles call whose k-th write failed, the writes
\* before it are in the sandbox and in state.data.files, whether or not the
\* state held files before the call.
C25_PartialBatchStaysApplied ==
    \A r \in RunIds :
        (/\ net[r].last # <<>>
         /\ net[r].last[1].tool.name = "createOrUpdateFiles"
         /\ net[r].last[1].tool.failAt > 1) =>
            \A path \in DOMAIN AppliedBeforeFailure(r) :
                /\ path \in DOMAIN SandboxOf(r)
                /\ SandboxOf(r)[path] = AppliedBeforeFailure(r)[path]
                /\ path \in DOMAIN FilesOf(net[r].state)
                /\ FilesOf(net[r].state)[path] = AppliedBeforeFailure(r)[path]

\* C26: during and after the loop, state.data.files holds exactly the paths
\* written to the sandbox of the run, each with the content of the last write
\* to it that returned.
C26_FilesAreLastSuccessfulWrites ==
    \A r \in RunIds :
        run[r].sandboxId # "" => FilesOf(net[r].state) = SandboxOf(r)

\* C27: a tool call that failed returned a string to the model; for terminal
\* the string holds the stdout and the stderr received.
C27_ToolFailureReturnsText ==
    \A r \in RunIds :
        (net[r].last # <<>> /\ net[r].last[1].failed) =>
            /\ net[r].reply # <<>>
            /\ net[r].reply[1].type = "string"
            /\ net[r].last[1].tool.name = "terminal" =>
                  {StdoutOfCommand, StderrOfCommand} \subseteq SeqToSet(net[r].reply[1].pieces)

----------------------------------------------------------------------------
(* What holds of the tools of the agent whichever call fails *)

\* every entry of state.data.files is a file of the sandbox with that content,
\* and an entry is never removed or rolled back by a failing call
FilesOfStateAreInSandbox ==
    \A r \in RunIds :
        run[r].sandboxId # "" =>
            \A path \in DOMAIN FilesOf(net[r].state) :
                /\ path \in DOMAIN SandboxOf(r)
                /\ SandboxOf(r)[path] = FilesOf(net[r].state)[path]

\* a batch that fails after the state was given files keeps its earlier writes
PartialBatchStaysAppliedOnceFilesExist ==
    \A r \in RunIds :
        (/\ net[r].last # <<>>
         /\ net[r].last[1].tool.name = "createOrUpdateFiles"
         /\ net[r].last[1].tool.failAt > 1
         /\ net[r].last[1].before.files # NoFiles) =>
            \A path \in DOMAIN AppliedBeforeFailure(r) :
                /\ path \in DOMAIN FilesOf(net[r].state)
                /\ FilesOf(net[r].state)[path] = AppliedBeforeFailure(r)[path]

\* a failing terminal or readFiles call returns text
CommandAndReadFailuresReturnText ==
    \A r \in RunIds :
        (/\ net[r].last # <<>>
         /\ net[r].last[1].failed
         /\ net[r].last[1].tool.name \in {"terminal", "readFiles"}) =>
            /\ net[r].reply[1].type = "string"
            /\ net[r].last[1].tool.name = "terminal" =>
                  {StdoutOfCommand, StderrOfCommand} \subseteq SeqToSet(net[r].reply[1].pieces)

\* what the loop made step by step is a result of RunNetwork
StepwiseLoopAgreesWithRunNetwork ==
    \A r \in RunIds : LoopOver(r) => run[r].state \in NetworkResults

\* what belongs to run q: its record, its network and its sandbox
OwnedBy(q) == <<run[q], net[q], IF run[q].sandboxId = "" THEN EmptyMap ELSE SandboxOf(q)>>

\* C28: two runs that have a sandbox have different sandboxes, and a step
\* that changes the network of one run (an iteration with its tool call)
\* leaves the record, the network (files and summary) and the sandbox of
\* every other run as they were.
C28_RunsShareNoState ==
    [][\A r, q \in RunIds :
          /\ (r # q /\ run'[r].sandboxId # "" /\ run'[q].sandboxId # "") =>
                getSandbox(run'[r].sandboxId) # getSandbox(run'[q].sandboxId)
          /\ (r # q /\ net'[r] # net[r]) => OwnedBy(q)' = OwnedBy(q)]_vars

C28_Witness ==
    /\ run["r1"].pc = "network.run" /\ run["r2"].pc = "network.run"
    /\ net["r1"].state.summary = MarkerText
    /\ net["r2"].state.summary = NoSummary
    /\ net["r2"].iter = 2
    /\ FilesOf(net["r1"].state) = ("app/page.tsx" :> "c1")
    /\ FilesOf(net["r2"].state) = ("app/page.tsx" :> "c2")
    /\ SandboxOf("r1") = ("app/page.tsx" :> "c1")
    /\ SandboxOf("r2") = ("app/page.tsx" :> "c2")

\* the stock prompt of a run's stepType with the digest of its project on top
StockPromptOf(r) ==
    [template |-> IF Has(data(r), "stepType") /\ data(r).stepType \in StepTypes
                  THEN data(r).stepType ELSE "frontend",
     digest |-> run[r].digest]

\* the prompt of a run is chosen
PromptChosen(r) == run[r].systemPrompt # <<>>

UsesStockPrompt(r) == run[r].systemPrompt = StockPromptOf(r)

UsesIterativePrompt(r) ==
    /\ run[r].systemPrompt.template = "iterative"
    /\ run[r].systemPrompt.basePrompt = run[r].digest
    /\ run[r].systemPrompt.request = data(r).value
    /\ run[r].systemPrompt.history.projectId = data(r).projectId

\* C29: the system prompt of a run whose event does not say isFollowUp is the
\* stock prompt of its stepType (frontend without one) with the digest on
\* top; the system prompt of a run whose event says isFollowUp is the
\* iterative prompt built from the conversation context of its project, the
\* digest and the request.
C29_PromptByFollowUp ==
    \A r \in RunIds :
        PromptChosen(r) =>
            IF IsFollowUp(data(r)) THEN UsesIterativePrompt(r) ELSE UsesStockPrompt(r)

----------------------------------------------------------------------------
(* The prompt each definition of codeAgentFunction chooses *)

FirstDefinitionUsesStockPrompt ==
    \A r \in RunIds : (impl = 1 /\ PromptChosen(r)) => UsesStockPrompt(r)

SecondDefinitionBuildsIterativePrompt ==
    \A r \in RunIds :
        (impl = 2 /\ PromptChosen(r) /\ IsFollowUp(data(r))) => UsesIterativePrompt(r)

\* run r was started by an event of the fan-out of the request whose
\* sandbox.setup event triggered the setup run
FanOutRunOfRequest(r) ==
    /\ Has(data(r), "stepType")
    /\ ~Has(data(r), "isFollowUp")
    /\ data(r).projectId = setup.projectId

\* C30: every fragment merged by a setup run was persisted by a run of the
\* fan-out of the request that triggered it, for the project of the request.
C30_MergedFromOwnFanOutOnly ==
    setup.pc = "create-sandbox" =>
        \A i \in 1..Len(setup.fragments) :
            /\ messages[setup.fragments[i]].projectId = setup.projectId
            /\ FanOutRunOfRequest(messages[setup.fragments[i]].by)

\* the fragments merged are fragments of the project of the setup run
MergedFromOwnProject ==
    setup.pc = "create-sandbox" =>
        \A i \in 1..Len(setup.fragments) :
            messages[setup.fragments[i]].projectId = setup.projectId

====
